---- MODULE Spec2Model ----
(***************************************************************************)
(* libchips (src/libchips/src/chips.c): a pool of N reader threads fills a *)
(* ring of M slot buffers with raster windows ("chips"); one caller thread *)
(* drives the API: start, get_next, get_inference_chip, stop.              *)
(*                                                                         *)
(* The process globals of chips.c are the variables of the same name.     *)
(* Every reader thread has a position pc[i] and its locals x_offset[i],    *)
(* y_offset[i], slot[i] and state[i] (one bit of the rand_r state); the    *)
(* caller has a position cpc and its locals.                               *)
(* The raster backend (GDAL) is the environment: the file that was opened, *)
(* the set of open dataset handles and the set of live slot allocations.   *)
(***************************************************************************)
EXTENDS Integers, FiniteSets, Sequences, TLC

(***************************************************************************)
(* Bounds of the model.                                                    *)
(***************************************************************************)
MaxN == 2            \* start is called with _N in 0..MaxN
MaxM == 2            \* start is called with _M in 1..MaxM
MaxLoad == 3         \* ... and with _N + _M <= MaxLoad
MaxLabelWorkers == 1 \* ... and, with a label raster, with _N <= MaxLabelWorkers
MaxSessions == 1     \* number of start/stop cycles explored
MaxAttempts == 2     \* get_inference_chip is called with attempts in 0..MaxAttempts
CurrentBits == 1     \* width given to the uint64_t cursor `current`
MaxFairN == 1        \* workers of the sessions explored under fairness
MaxFairLabelLoad == 2 \* ... and their _N + _M if they have a label raster

Workers == 0 .. (MaxN - 1)
Slots == 0 .. (MaxM - 1)

(***************************************************************************)
(* Program constants.                                                      *)
(***************************************************************************)
STOPPED == 0
TRAINING == 1
EVALUATION == 2
INFERENCE == 3
PARTITION == 7
GDT_Byte == 1
GDT_UInt16 == 2
GDT_Int16 == 3
GDT_UInt32 == 4
GDT_Int32 == 5
GDT_Float32 == 6
GDT_Float64 == 7
GDT_CInt16 == 8
GDT_CInt32 == 9
GDT_CFloat32 == 10
GDT_CFloat64 == 11
GDT_Unset == -1
GDAL_DATA_COVERAGE_STATUS_DATA == 2
GDAL_DATA_COVERAGE_STATUS_EMPTY == 4

(***************************************************************************)
(* Encodings.  A pthread mutex is its owner: UNLOCKED, CALLER or a worker  *)
(* id; NOMUTEX is the entry of a mutex array that is not allocated.  A     *)
(* buffer is the pixel origin <<x, y>> of the window whose pixels it holds *)
(* completely, or one of: JUNK (malloc'ed, never written), TORN (written   *)
(* in part by a read that is in flight or failed), ZEROS (memset to 0),    *)
(* NOBUF (no buffer: a NULL pointer).                                      *)
(***************************************************************************)
UNLOCKED == -1
CALLER == -2
NOMUTEX == -3
NOREADY == -1
JUNK == <<-1, -1>>
TORN == <<-2, -2>>
ZEROS == <<-3, -3>>
NOBUF == <<-4, -4>>
H_NULL == 0
H_OPEN == 1
H_CLOSED == 2


(***************************************************************************)
(* The raster backend.  The imagery raster is RasterXSize x RasterYSize    *)
(* pixels; DataRects are the pixel rectangles <<x0, x1, y0, y1>> that hold *)
(* stored data, every other pixel is a gap.  With window size 7 the chip   *)
(* grid is 2 x 2 with a partial column and a partial row left over:        *)
(*    (0,0) data            (1,0) data                                     *)
(*    (0,1) data and gaps   (1,1) data                                     *)
(* With window size 15 the grid is the single cell (0,0), data and gaps.   *)
(***************************************************************************)
RasterXSize == 15
RasterYSize == 15

DataRects == {<<0, 13, 0, 6>>, <<0, 6, 7, 9>>, <<7, 13, 7, 13>>}

HasData(px, py) ==
    \E r \in DataRects : px >= r[1] /\ px <= r[2] /\ py >= r[3] /\ py <= r[4]

\* start is called with _window_size in this set
WindowSizes == {7, 15}

\* get_inference_chip is called with <<x, y>> in this set
InferencePoints == {<<0, 0>>, <<3, 0>>, <<14, 0>>, <<0, 7>>, <<9, 9>>}

\* GDALGetDataCoverageStatus(band, px, py, w, h, 0, NULL): DATA if some pixel
\* of the window is stored, EMPTY if some pixel of the window is not.
GDALGetDataCoverageStatus(px, py, w, h) ==
    LET window == (px .. (px + w - 1)) \X (py .. (py + h - 1))
        data == \E q \in window : HasData(q[1], q[2])
        gap == \E q \in window : ~HasData(q[1], q[2])
    IN  (IF data THEN GDAL_DATA_COVERAGE_STATUS_DATA ELSE 0)
        + (IF gap THEN GDAL_DATA_COVERAGE_STATUS_EMPTY ELSE 0)

\* the bit test  mask & status  for a one-bit mask
BitAnd(mask, status) == IF (status \div mask) % 2 = 1 THEN mask ELSE 0

\* a windowed GDALDatasetRasterIO can succeed only inside the raster
WindowInside(px, py, w) ==
    /\ px >= 0 /\ py >= 0
    /\ px + w <= RasterXSize /\ py + w <= RasterYSize

word_size(dt) ==
    CASE dt = GDT_Byte -> 1
      [] dt = GDT_UInt16 -> 2
      [] dt = GDT_Int16 -> 2
      [] dt = GDT_UInt32 -> 4
      [] dt = GDT_Int32 -> 4
      [] dt = GDT_Float32 -> 4
      [] dt = GDT_Float64 -> 8
      [] dt = GDT_CInt16 -> 4
      [] dt = GDT_CInt32 -> 8
      [] dt = GDT_CFloat32 -> 8
      [] dt = GDT_CFloat64 -> 16

VARIABLES
    \* globals of chips.c
    N, M, imagery_data_type, label_data_type, operation_mode, window_size,
    band_count, bands, width, height, current,
    threads, imagery_datasets, imagery_first_bands, label_datasets,
    mutexes, imagery_slots, label_slots, ready,
    \* reader threads: position and locals
    pc, x_offset, y_offset, slot, state,
    \* caller thread: position, arguments, locals, buffers, return value
    cpc, ci, arg_label, arg_x, arg_y, attempts,
    imagery_buffer, label_buffer, ret, reads,
    \* environment: open GDAL datasets, live slot allocations, starts so far
    gdal_open, heap, sessions

globals == <<N, M, imagery_data_type, label_data_type, operation_mode,
             window_size, band_count, bands, width, height, current>>
arrays == <<threads, imagery_datasets, imagery_first_bands, label_datasets,
            mutexes, imagery_slots, label_slots, ready>>
locals == <<pc, x_offset, y_offset, slot, state>>
caller == <<cpc, ci, arg_label, arg_x, arg_y, attempts,
            imagery_buffer, label_buffer, ret, reads>>
env == <<gdal_open, heap, sessions>>
vars == <<globals, arrays, locals, caller, env>>

\* dataset handle names in gdal_open
ImageryHandle(i) == <<0, i>>
LabelHandle(i) == <<1, i>>

\* slot allocation names in heap
ImagerySlot(s) == <<0, s>>
LabelSlot(s) == <<1, s>>

NullPerWorker == [i \in Workers |-> H_NULL]

(***************************************************************************)
(* The globals as chips.c initialises them (lines 10-32).                  *)
(***************************************************************************)
Init ==
    /\ N = 0 /\ M = 0
    /\ imagery_data_type = GDT_Unset /\ label_data_type = GDT_Unset
    /\ operation_mode = STOPPED
    /\ window_size = 0 /\ band_count = 0 /\ bands = <<>>
    /\ width = 0 /\ height = 0 /\ current = 0
    /\ threads = NullPerWorker
    /\ imagery_datasets = NullPerWorker
    /\ imagery_first_bands = NullPerWorker
    /\ label_datasets = NullPerWorker
    /\ mutexes = [s \in Slots |-> NOMUTEX]
    /\ imagery_slots = [s \in Slots |-> NOBUF]
    /\ label_slots = [s \in Slots |-> NOBUF]
    /\ ready = [s \in Slots |-> NOREADY]
    /\ pc = [i \in Workers |-> "none"]
    /\ x_offset = [i \in Workers |-> 0]
    /\ y_offset = [i \in Workers |-> 0]
    /\ slot = [i \in Workers |-> -1]
    /\ state = [i \in Workers |-> 0]
    /\ cpc = "idle" /\ ci = 0
    /\ arg_label = FALSE /\ arg_x = 0 /\ arg_y = 0
    /\ attempts = 0
    /\ imagery_buffer = NOBUF /\ label_buffer = NOBUF
    /\ ret = -1 /\ reads = 0
    /\ gdal_open = {} /\ heap = {} /\ sessions = 0

\* a session is active from start to the end of stop: bands is malloc'ed
SessionActive == bands # <<>>

(***************************************************************************)
(* start (lines 320-381).                                                  *)
(***************************************************************************)
\* lines 329-360: globals, per-thread arrays, dataset 0, per-slot arrays
StartInit(_N, _M, label, mode, _window_size) ==
    /\ cpc = "idle" /\ ~SessionActive /\ sessions < MaxSessions
    /\ N' = _N /\ M' = _M
    /\ imagery_data_type' = GDT_Byte /\ label_data_type' = GDT_Byte
    /\ operation_mode' = mode
    /\ window_size' = _window_size
    /\ band_count' = 1 /\ bands' = <<1>>
    /\ imagery_datasets' = [i \in Workers |-> IF i = 0 THEN H_OPEN ELSE H_NULL]
    /\ imagery_first_bands' = NullPerWorker
    /\ label_datasets' = NullPerWorker
    /\ width' = RasterXSize /\ height' = RasterYSize
    /\ threads' = NullPerWorker
    /\ mutexes' = [s \in Slots |-> IF s < _M THEN UNLOCKED ELSE NOMUTEX]
    /\ imagery_slots' = [s \in Slots |-> IF s < _M THEN JUNK ELSE NOBUF]
    /\ label_slots' = [s \in Slots |-> IF s < _M THEN JUNK ELSE NOBUF]
    /\ ready' = [s \in Slots |-> IF s < _M THEN 0 ELSE NOREADY]
    /\ gdal_open' = gdal_open \cup {ImageryHandle(0)}
    /\ heap' = {ImagerySlot(s) : s \in 0 .. (_M - 1)}
                 \cup {LabelSlot(s) : s \in 0 .. (_M - 1)}
    /\ sessions' = sessions + 1
    /\ arg_label' = label
    /\ ci' = 0
    /\ cpc' = IF _N = 0 THEN "idle" ELSE "start_spawn"
    /\ UNCHANGED <<current, locals, arg_x, arg_y, attempts,
                   imagery_buffer, label_buffer, ret, reads>>

\* a slip that creates the thread before its first band handle is fetched
StartSpawn_NoFirstBand ==
    /\ cpc = "start_spawn" /\ ci < N
    /\ imagery_datasets' = [imagery_datasets EXCEPT ![ci] = H_OPEN]
    /\ label_datasets' =
         [label_datasets EXCEPT ![ci] = IF arg_label THEN H_OPEN ELSE H_NULL]
    /\ gdal_open' = gdal_open \cup {ImageryHandle(ci)}
                      \cup (IF arg_label THEN {LabelHandle(ci)} ELSE {})
    /\ threads' = [threads EXCEPT ![ci] = H_OPEN]
    /\ pc' = [pc EXCEPT ![ci] = "loop_head"]
    /\ ci' = ci + 1
    /\ cpc' = IF ci + 1 = N THEN "idle" ELSE "start_spawn"
    /\ UNCHANGED <<globals, imagery_first_bands,
                   mutexes, imagery_slots, label_slots, ready,
                   x_offset, y_offset, slot, state,
                   arg_label, arg_x, arg_y, attempts,
                   imagery_buffer, label_buffer, ret, reads, heap, sessions>>

\* lines 361-378, one iteration: open worker ci's handles, create its thread
StartSpawn ==
    /\ cpc = "start_spawn" /\ ci < N
    /\ imagery_datasets' = [imagery_datasets EXCEPT ![ci] = H_OPEN]
    /\ imagery_first_bands' = [imagery_first_bands EXCEPT ![ci] = H_OPEN]
    /\ label_datasets' =
         [label_datasets EXCEPT ![ci] = IF arg_label THEN H_OPEN ELSE H_NULL]
    /\ gdal_open' = gdal_open \cup {ImageryHandle(ci)}
                      \cup (IF arg_label THEN {LabelHandle(ci)} ELSE {})
    /\ threads' = [threads EXCEPT ![ci] = H_OPEN]
    /\ pc' = [pc EXCEPT ![ci] = "loop_head"]
    /\ ci' = ci + 1
    /\ cpc' = IF ci + 1 = N THEN "idle" ELSE "start_spawn"
    /\ UNCHANGED <<globals, mutexes, imagery_slots, label_slots, ready,
                   x_offset, y_offset, slot, state,
                   arg_label, arg_x, arg_y, attempts,
                   imagery_buffer, label_buffer, ret, reads, heap, sessions>>

(***************************************************************************)
(* stop (lines 386-425).                                                   *)
(***************************************************************************)
\* line 388
StopSet ==
    /\ cpc = "idle" /\ SessionActive
    /\ operation_mode' = STOPPED
    /\ ci' = 0
    /\ cpc' = IF N = 0 THEN "stop_free" ELSE "stop_join"
    /\ UNCHANGED <<N, M, imagery_data_type, label_data_type, window_size,
                   band_count, bands, width, height, current, arrays, locals,
                   arg_label, arg_x, arg_y, attempts,
                   imagery_buffer, label_buffer, ret, reads, env>>

\* a slip that closes the handles of thread ci without the join
StopJoin_NoWait ==
    /\ cpc = "stop_join" /\ ci < N
    /\ imagery_datasets' = [imagery_datasets EXCEPT ![ci] = H_CLOSED]
    /\ label_datasets' =
         [label_datasets EXCEPT
            ![ci] = IF label_datasets[ci] # H_NULL THEN H_CLOSED ELSE H_NULL]
    /\ gdal_open' = (gdal_open \ {ImageryHandle(ci)})
                      \ (IF label_datasets[ci] # H_NULL
                         THEN {LabelHandle(ci)} ELSE {})
    /\ ci' = ci + 1
    /\ cpc' = IF ci + 1 = N THEN "stop_free" ELSE "stop_join"
    /\ UNCHANGED <<globals, threads, imagery_first_bands,
                   mutexes, imagery_slots, label_slots, ready, locals,
                   arg_label, arg_x, arg_y, attempts,
                   imagery_buffer, label_buffer, ret, reads, heap, sessions>>

\* lines 389-397, one iteration: join thread ci, close its handles
StopJoin ==
    /\ cpc = "stop_join" /\ ci < N
    /\ pc[ci] = "done"
    /\ pc' = [pc EXCEPT ![ci] = "none"]
    /\ imagery_datasets' = [imagery_datasets EXCEPT ![ci] = H_CLOSED]
    /\ label_datasets' =
         [label_datasets EXCEPT
            ![ci] = IF label_datasets[ci] # H_NULL THEN H_CLOSED ELSE H_NULL]
    /\ gdal_open' = (gdal_open \ {ImageryHandle(ci)})
                      \ (IF label_datasets[ci] # H_NULL
                         THEN {LabelHandle(ci)} ELSE {})
    /\ ci' = ci + 1
    /\ cpc' = IF ci + 1 = N THEN "stop_free" ELSE "stop_join"
    /\ UNCHANGED <<globals, threads, imagery_first_bands,
                   mutexes, imagery_slots, label_slots, ready,
                   x_offset, y_offset, slot, state,
                   arg_label, arg_x, arg_y, attempts,
                   imagery_buffer, label_buffer, ret, reads, heap, sessions>>

\* lines 398-424: free the slots and the arrays, null the pointers
StopFree ==
    /\ cpc = "stop_free"
    /\ heap' = heap \ ({ImagerySlot(s) : s \in 0 .. (M - 1)}
                         \cup {LabelSlot(s) : s \in 0 .. (M - 1)})
    /\ N' = 0 /\ M' = 0
    /\ bands' = <<>>
    /\ threads' = NullPerWorker
    /\ mutexes' = [s \in Slots |-> NOMUTEX]
    /\ imagery_datasets' = NullPerWorker
    /\ imagery_first_bands' = NullPerWorker
    /\ label_datasets' = NullPerWorker
    /\ imagery_slots' = [s \in Slots |-> NOBUF]
    /\ label_slots' = [s \in Slots |-> NOBUF]
    /\ ready' = [s \in Slots |-> NOREADY]
    /\ arg_label' = FALSE
    /\ cpc' = "idle"
    /\ UNCHANGED <<imagery_data_type, label_data_type, operation_mode,
                   window_size, band_count, width, height, current, locals,
                   ci, arg_x, arg_y, attempts,
                   imagery_buffer, label_buffer, ret, reads, gdal_open,
                   sessions>>


(***************************************************************************)
(* pthread mutexes.  pthread_mutex_init(&m, NULL) makes a default mutex:   *)
(* pthread_mutex_unlock by a thread that does not hold it is undefined.    *)
(* A build either clears the lock word (a normal mutex) or refuses and     *)
(* leaves it (an error-checking one): both outcomes are possible.          *)
(***************************************************************************)
TryLockSucceeds(s) == mutexes[s] = UNLOCKED

UnlockOutcomes(t, s) ==
    IF mutexes[s] = t THEN {UNLOCKED} ELSE {UNLOCKED, mutexes[s]}

Producing == operation_mode = TRAINING \/ operation_mode = EVALUATION

(***************************************************************************)
(* reader (lines 200-290).                                                 *)
(***************************************************************************)
\* line 50, with x_offset, y_offset in chip-grid coordinates
EMPTY_WINDOW(x, y) ==
    BitAnd(GDAL_DATA_COVERAGE_STATUS_EMPTY,
           GDALGetDataCoverageStatus(window_size * x, window_size * y,
                                     window_size, window_size)) # 0

\* a slip that swaps the two partition predicates
BAD_TRAINING_WINDOW_Swapped(x, y) == ((x + y) % PARTITION) # 0

\* line 51
BAD_TRAINING_WINDOW(x, y) == ((x + y) % PARTITION) = 0

\* line 52
BAD_EVALUATION_WINDOW(x, y) == ((x + y) % PARTITION) # 0

\* a slip in the loop condition: any mode but Stopped keeps the worker running
LoopHead_AnyMode(i) ==
    /\ pc[i] = "loop_head"
    /\ IF operation_mode # STOPPED
       THEN /\ pc' = [pc EXCEPT ![i] = "branch"]
            /\ UNCHANGED <<x_offset, y_offset, slot>>
       ELSE /\ pc' = [pc EXCEPT ![i] = "done"]
            /\ x_offset' = [x_offset EXCEPT ![i] = 0]
            /\ y_offset' = [y_offset EXCEPT ![i] = 0]
            /\ slot' = [slot EXCEPT ![i] = -1]
    /\ UNCHANGED <<globals, arrays, state, caller, env>>

\* line 209: the loop condition; on exit the thread returns (line 289)
LoopHead(i) ==
    /\ pc[i] = "loop_head"
    /\ IF Producing
       THEN /\ pc' = [pc EXCEPT ![i] = "branch"]
            /\ UNCHANGED <<x_offset, y_offset, slot>>
       ELSE /\ pc' = [pc EXCEPT ![i] = "done"]
            /\ x_offset' = [x_offset EXCEPT ![i] = 0]
            /\ y_offset' = [y_offset EXCEPT ![i] = 0]
            /\ slot' = [slot EXCEPT ![i] = -1]
    /\ UNCHANGED <<globals, arrays, state, caller, env>>

\* a slip that scales the chip coordinates to pixels twice
EnterSearch_ScaledTwice(i, x, y) ==
    /\ x_offset' = [x_offset EXCEPT ![i] = x * window_size * window_size]
    /\ y_offset' = [y_offset EXCEPT ![i] = y * window_size * window_size]
    /\ \E r \in 0 .. (M - 1) : slot' = [slot EXCEPT ![i] = r]
    /\ state' = [state EXCEPT ![i] = 0]
    /\ pc' = [pc EXCEPT ![i] = "search"]

\* lines 232-236: scale to pixels, draw the first slot of the search; the
\* draws are free choices, so the generator's state is of no further use
EnterSearch(i, x, y) ==
    /\ x_offset' = [x_offset EXCEPT ![i] = x * window_size]
    /\ y_offset' = [y_offset EXCEPT ![i] = y * window_size]
    /\ \E r \in 0 .. (M - 1) : slot' = [slot EXCEPT ![i] = r]
    /\ state' = [state EXCEPT ![i] = 0]
    /\ pc' = [pc EXCEPT ![i] = "search"]

\* lines 212-214, 221-225: the mode is read again and picks the sampler
Branch(i) ==
    /\ pc[i] = "branch"
    /\ IF operation_mode = TRAINING
       THEN /\ x_offset' = [x_offset EXCEPT ![i] = 0]
            /\ y_offset' = [y_offset EXCEPT ![i] = 0]
            /\ pc' = [pc EXCEPT ![i] = "sample_training"]
            /\ UNCHANGED <<slot, state>>
       ELSE IF operation_mode = EVALUATION
       THEN /\ x_offset' = [x_offset EXCEPT ![i] = 0]
            /\ y_offset' = [y_offset EXCEPT ![i] = 1]
            /\ pc' = [pc EXCEPT ![i] = "sample_evaluation"]
            /\ UNCHANGED <<slot, state>>
       ELSE EnterSearch(i, x_offset[i], y_offset[i])
    /\ UNCHANGED <<globals, arrays, caller, env>>

\* lines 215-219, 226-230: the while condition for the sampler of the mode
BadWindow(i, x, y) ==
    \/ IF pc[i] = "sample_training"
       THEN BAD_TRAINING_WINDOW(x, y)
       ELSE BAD_EVALUATION_WINDOW(x, y)
    \/ EMPTY_WINDOW(x, y)

\* lines 215-219, 226-230: the while condition is tested; if it holds, rand_r
\* draws a window (and moves on its state, of which one bit is kept) and the
\* condition is tested again
Sample(i) ==
    /\ pc[i] \in {"sample_training", "sample_evaluation"}
    /\ IF BadWindow(i, x_offset[i], y_offset[i])
       THEN \E rx \in 0 .. ((width \div window_size) - 1),
               ry \in 0 .. ((height \div window_size) - 1) :
                IF BadWindow(i, rx, ry)
                THEN /\ x_offset' = [x_offset EXCEPT ![i] = rx]
                     /\ y_offset' = [y_offset EXCEPT ![i] = ry]
                     /\ state' = [state EXCEPT ![i] = 1 - state[i]]
                     /\ UNCHANGED <<pc, slot>>
                ELSE EnterSearch(i, rx, ry)
       ELSE EnterSearch(i, x_offset[i], y_offset[i])
    /\ UNCHANGED <<globals, arrays, caller, env>>

\* a slip that leaves the mode out of the condition of the slot search
Search_NoModeTest(i) ==
    /\ pc[i] = "search"
    /\ IF TryLockSucceeds(slot[i])
       THEN /\ mutexes' = [mutexes EXCEPT ![slot[i]] = i]
            /\ pc' = [pc EXCEPT ![i] = IF ready[slot[i]] = 0
                                        THEN "read_imagery"
                                        ELSE "unlock_continue"]
       ELSE /\ pc' = [pc EXCEPT ![i] = "unlock_continue"]
            /\ UNCHANGED mutexes
    /\ UNCHANGED <<globals, threads, imagery_datasets, imagery_first_bands,
                   label_datasets, imagery_slots, label_slots, ready,
                   x_offset, y_offset, slot, state, caller, env>>

\* lines 236, 239: the loop condition, then pthread_mutex_trylock and, if
\* it succeeded, the test of ready[slot]
Search(i) ==
    /\ pc[i] = "search"
    /\ IF ~Producing
       THEN /\ pc' = [pc EXCEPT ![i] = "after_search"]
            /\ UNCHANGED mutexes
       ELSE IF TryLockSucceeds(slot[i])
       THEN /\ mutexes' = [mutexes EXCEPT ![slot[i]] = i]
            /\ pc' = [pc EXCEPT ![i] = IF ready[slot[i]] = 0
                                        THEN "read_imagery"
                                        ELSE "unlock_continue"]
       ELSE /\ pc' = [pc EXCEPT ![i] = "unlock_continue"]
            /\ UNCHANGED mutexes
    /\ UNCHANGED <<globals, threads, imagery_datasets, imagery_first_bands,
                   label_datasets, imagery_slots, label_slots, ready,
                   x_offset, y_offset, slot, state, caller, env>>

\* a slip that goes on to the next slot without the unlock
UnlockContinue_KeepsLock(i) ==
    /\ pc[i] = "unlock_continue"
    /\ slot' = [slot EXCEPT ![i] = (slot[i] + 1) % M]
    /\ pc' = [pc EXCEPT ![i] = "search"]
    /\ UNCHANGED <<globals, arrays, x_offset, y_offset, state, caller, env>>

\* line 243: UNLOCK_CONTINUE(slot, 100), reached whether or not the
\* trylock succeeded; then the loop increment
UnlockContinue(i) ==
    /\ pc[i] = "unlock_continue"
    /\ \E m \in UnlockOutcomes(i, slot[i]) :
          mutexes' = [mutexes EXCEPT ![slot[i]] = m]
    /\ slot' = [slot EXCEPT ![i] = (slot[i] + 1) % M]
    /\ pc' = [pc EXCEPT ![i] = "search"]
    /\ UNCHANGED <<globals, threads, imagery_datasets, imagery_first_bands,
                   label_datasets, imagery_slots, label_slots, ready,
                   x_offset, y_offset, state, caller, env>>

\* lines 248-251: UNLOCK_BREAK((slot + M - 1) % M, 0)
AfterSearch(i) ==
    /\ pc[i] = "after_search"
    /\ IF ~Producing
       THEN /\ \E m \in UnlockOutcomes(i, (slot[i] + M - 1) % M) :
                  mutexes' = [mutexes EXCEPT ![(slot[i] + M - 1) % M] = m]
            /\ pc' = [pc EXCEPT ![i] = "done"]
            /\ x_offset' = [x_offset EXCEPT ![i] = 0]
            /\ y_offset' = [y_offset EXCEPT ![i] = 0]
            /\ slot' = [slot EXCEPT ![i] = -1]
       ELSE /\ pc' = [pc EXCEPT ![i] = "read_imagery"]
            /\ UNCHANGED <<mutexes, x_offset, y_offset, slot>>
    /\ UNCHANGED <<globals, threads, imagery_datasets, imagery_first_bands,
                   label_datasets, imagery_slots, label_slots, ready,
                   state, caller, env>>

\* lines 256-265: the imagery read; on an error UNLOCK_CONTINUE(slot, 1000)
\* with the buffer written in part
ReadImagery(i) ==
    /\ pc[i] = "read_imagery"
    /\ \/ /\ WindowInside(x_offset[i], y_offset[i], window_size)
          /\ imagery_slots' =
               [imagery_slots EXCEPT ![slot[i]] = <<x_offset[i], y_offset[i]>>]
          /\ pc' = [pc EXCEPT ![i] = IF label_datasets[i] # H_NULL
                                      THEN "read_label" ELSE "publish"]
       \/ /\ imagery_slots' = [imagery_slots EXCEPT ![slot[i]] = TORN]
          /\ pc' = [pc EXCEPT ![i] = "unlock_loop"]
    /\ UNCHANGED <<globals, threads, imagery_datasets, imagery_first_bands,
                   label_datasets, mutexes, label_slots, ready,
                   x_offset, y_offset, slot, state, caller, env>>

\* lines 268-280: the label read
ReadLabel(i) ==
    /\ pc[i] = "read_label"
    /\ \/ /\ WindowInside(x_offset[i], y_offset[i], window_size)
          /\ label_slots' =
               [label_slots EXCEPT ![slot[i]] = <<x_offset[i], y_offset[i]>>]
          /\ pc' = [pc EXCEPT ![i] = "publish"]
       \/ /\ label_slots' = [label_slots EXCEPT ![slot[i]] = TORN]
          /\ pc' = [pc EXCEPT ![i] = "unlock_loop"]
    /\ UNCHANGED <<globals, threads, imagery_datasets, imagery_first_bands,
                   label_datasets, mutexes, imagery_slots, ready,
                   x_offset, y_offset, slot, state, caller, env>>

\* a slip that leaves the slot Empty after the reads
Publish_Forgets(i) ==
    /\ pc[i] = "publish"
    /\ pc' = [pc EXCEPT ![i] = "unlock_loop"]
    /\ UNCHANGED <<globals, threads, imagery_datasets, imagery_first_bands,
                   label_datasets, mutexes, imagery_slots, label_slots, ready,
                   x_offset, y_offset, slot, state, caller, env>>

\* line 283
Publish(i) ==
    /\ pc[i] = "publish"
    /\ ready' = [ready EXCEPT ![slot[i]] = 1]
    /\ pc' = [pc EXCEPT ![i] = "unlock_loop"]
    /\ UNCHANGED <<globals, threads, imagery_datasets, imagery_first_bands,
                   label_datasets, mutexes, imagery_slots, label_slots,
                   x_offset, y_offset, slot, state, caller, env>>

\* lines 264, 278, 286: UNLOCK(slot, 1000), then the outer loop again.  The
\* locals are dead here (lines 214, 224-225 and 236 set them again before any
\* use that reaches a read), so they are put back to their initial values.
UnlockLoop(i) ==
    /\ pc[i] = "unlock_loop"
    /\ \E m \in UnlockOutcomes(i, slot[i]) :
          mutexes' = [mutexes EXCEPT ![slot[i]] = m]
    /\ pc' = [pc EXCEPT ![i] = "loop_head"]
    /\ x_offset' = [x_offset EXCEPT ![i] = 0]
    /\ y_offset' = [y_offset EXCEPT ![i] = 0]
    /\ slot' = [slot EXCEPT ![i] = -1]
    /\ UNCHANGED <<globals, threads, imagery_datasets, imagery_first_bands,
                   label_datasets, imagery_slots, label_slots, ready,
                   state, caller, env>>

reader(i) ==
    \/ LoopHead(i) \/ Branch(i) \/ Sample(i) \/ Search(i)
    \/ UnlockContinue(i) \/ AfterSearch(i) \/ ReadImagery(i)
    \/ ReadLabel(i) \/ Publish(i) \/ UnlockLoop(i)


(***************************************************************************)
(* get_next (lines 166-192), on the caller's thread.                       *)
(***************************************************************************)
\* ++current on a uint64_t, here CurrentBits wide
NextCurrent == (current + 1) % (2 ^ CurrentBits)

\* the call: the caller hands in its buffers; label_buffer may be NULL
GetNextCall(with_label) ==
    /\ cpc = "idle" /\ SessionActive /\ Producing
    /\ imagery_buffer' = JUNK
    /\ label_buffer' = IF with_label THEN JUNK ELSE NOBUF
    /\ cpc' = "get_next"
    /\ UNCHANGED <<globals, arrays, locals, ci, arg_label, arg_x,
                   arg_y, attempts, ret, reads, env>>

\* lines 168-181: slot = current % M, pthread_mutex_trylock; a failed trylock
\* goes round the loop (++current); after a successful one ready[slot] is
\* tested and, if the slot is Full, the memcpy of the imagery starts
GetNextTryLock ==
    /\ cpc = "get_next"
    /\ IF TryLockSucceeds(current % M)
       THEN /\ mutexes' = [mutexes EXCEPT ![current % M] = CALLER]
            /\ IF ready[current % M] # 1
               THEN /\ cpc' = "get_next_miss"
                    /\ UNCHANGED imagery_buffer
               ELSE /\ cpc' = "get_next_copy"
                    /\ imagery_buffer' = imagery_slots[current % M]
            /\ UNCHANGED current
       ELSE /\ current' = NextCurrent
            /\ UNCHANGED <<mutexes, cpc, imagery_buffer>>
    /\ UNCHANGED <<N, M, imagery_data_type, label_data_type, operation_mode,
                   window_size, band_count, bands, width, height,
                   threads, imagery_datasets, imagery_first_bands,
                   label_datasets, imagery_slots, label_slots, ready, locals,
                   ci, arg_label, arg_x, arg_y, attempts,
                   label_buffer, ret, reads, env>>

\* lines 174-178: the slot is not Full: unlock, continue (++current)
GetNextMiss ==
    /\ cpc = "get_next_miss"
    /\ \E m \in UnlockOutcomes(CALLER, current % M) :
          mutexes' = [mutexes EXCEPT ![current % M] = m]
    /\ current' = NextCurrent
    /\ cpc' = "get_next"
    /\ UNCHANGED <<N, M, imagery_data_type, label_data_type, operation_mode,
                   window_size, band_count, bands, width, height,
                   threads, imagery_datasets, imagery_first_bands,
                   label_datasets, imagery_slots, label_slots, ready, locals,
                   ci, arg_label, arg_x, arg_y, attempts,
                   imagery_buffer, label_buffer, ret, reads, env>>

\* lines 181-188: the imagery memcpy ends (torn if the slot was written
\* meanwhile), the label memcpy if label_buffer is not NULL, ready[slot] = 0,
\* unlock, break, return
GetNextTake ==
    /\ cpc = "get_next_copy"
    /\ imagery_buffer' = IF imagery_slots[current % M] = imagery_buffer
                         THEN imagery_buffer ELSE TORN
    /\ label_buffer' = IF label_buffer # NOBUF THEN label_slots[current % M]
                       ELSE NOBUF
    /\ ready' = [ready EXCEPT ![current % M] = 0]
    /\ \E m \in UnlockOutcomes(CALLER, current % M) :
          mutexes' = [mutexes EXCEPT ![current % M] = m]
    /\ cpc' = "get_next_done"
    /\ UNCHANGED <<globals, threads, imagery_datasets, imagery_first_bands,
                   label_datasets, imagery_slots, label_slots, locals,
                   ci, arg_label, arg_x, arg_y, attempts, ret, reads, env>>

get_next == GetNextTryLock \/ GetNextMiss \/ GetNextTake

(***************************************************************************)
(* get_inference_chip (lines 121-158), on the caller's thread.             *)
(***************************************************************************)
\* a slip that returns failure without the memset
Bad_NoMemset ==
    /\ UNCHANGED imagery_buffer
    /\ ret' = 0
    /\ cpc' = "inference_done"

\* lines 152-154, label bad: memset of the whole buffer, return 0
Bad ==
    /\ imagery_buffer' =
         IF word_size(imagery_data_type) * band_count
              * window_size * window_size > 0
         THEN ZEROS ELSE JUNK
    /\ ret' = 0
    /\ cpc' = "inference_done"

\* lines 125-132: the call, x_offset = x / window_size, the mode test and
\* (only if the mode is 3) the coverage test on first band 0; goto bad if
\* either fails
InferenceCall(x, y, att) ==
    /\ cpc = "idle" /\ window_size # 0
    /\ operation_mode = INFERENCE => imagery_first_bands[0] = H_OPEN
    /\ arg_x' = x /\ arg_y' = y /\ attempts' = att
    /\ label_buffer' = NOBUF
    /\ ci' = 0 /\ reads' = 0
    /\ IF \/ operation_mode # INFERENCE
          \/ EMPTY_WINDOW(x \div window_size, y \div window_size)
       THEN Bad
       ELSE /\ imagery_buffer' = JUNK
            /\ ret' = -1
            /\ cpc' = "inference_loop"
    /\ UNCHANGED <<globals, arrays, locals, arg_label, env>>

\* a slip in the loop bound: i <= attempts
InferenceRead_OneMore ==
    /\ cpc = "inference_loop"
    /\ IF ci <= attempts
       THEN /\ reads' = reads + 1
            /\ \/ /\ WindowInside(arg_x, arg_y, window_size)
                  /\ imagery_buffer' = <<arg_x, arg_y>>
                  /\ ret' = 1
                  /\ cpc' = "inference_done"
                  /\ UNCHANGED ci
               \/ /\ imagery_buffer' = TORN
                  /\ ci' = ci + 1
                  /\ UNCHANGED <<ret, cpc>>
       ELSE /\ imagery_buffer' = ZEROS
            /\ ret' = 0
            /\ cpc' = "inference_done"
            /\ UNCHANGED <<ci, reads>>
    /\ UNCHANGED <<globals, arrays, locals, arg_label, arg_x, arg_y,
                   attempts, label_buffer, env>>

\* lines 134-150: one test of i < attempts and one read (a failed read may
\* have written part of the buffer); when the loop ends, bad
InferenceRead ==
    /\ cpc = "inference_loop"
    /\ IF ci < attempts
       THEN /\ reads' = reads + 1
            /\ \/ /\ WindowInside(arg_x, arg_y, window_size)
                  /\ imagery_buffer' = <<arg_x, arg_y>>
                  /\ ret' = 1
                  /\ cpc' = "inference_done"
                  /\ UNCHANGED ci
               \/ /\ imagery_buffer' = TORN
                  /\ ci' = ci + 1
                  /\ UNCHANGED <<ret, cpc>>
       ELSE /\ Bad
            /\ UNCHANGED <<ci, reads>>
    /\ UNCHANGED <<globals, arrays, locals, arg_label, arg_x, arg_y,
                   attempts, label_buffer, env>>

\* the caller takes the result of get_next or get_inference_chip and
\* drops its buffers
CallerResume ==
    /\ cpc \in {"get_next_done", "inference_done"}
    /\ cpc' = "idle"
    /\ imagery_buffer' = NOBUF /\ label_buffer' = NOBUF
    /\ ret' = -1 /\ reads' = 0 /\ ci' = 0
    /\ arg_x' = 0 /\ arg_y' = 0 /\ attempts' = 0
    /\ UNCHANGED <<globals, arrays, locals, arg_label, env>>

(***************************************************************************)
(* The program: the caller issues API calls one at a time; the reader      *)
(* threads run concurrently with it.                                       *)
(***************************************************************************)
StartModes == {TRAINING, EVALUATION, INFERENCE}

Start ==
    \E _N \in 0 .. MaxN, _M \in 1 .. MaxM, label \in BOOLEAN,
       mode \in StartModes, _window_size \in WindowSizes :
        /\ _N + _M <= MaxLoad
        /\ (label => _N <= MaxLabelWorkers)
        /\ StartInit(_N, _M, label, mode, _window_size)

\* a label buffer is passed only to a session that has a label raster
GetNext ==
    \E with_label \in BOOLEAN :
        (with_label => arg_label) /\ GetNextCall(with_label)

GetInferenceChip ==
    \E p \in InferencePoints, att \in 0 .. MaxAttempts :
        InferenceCall(p[1], p[2], att)

Reader == \E i \in Workers : reader(i)

Next ==
    \/ Start \/ StartSpawn
    \/ StopSet \/ StopJoin \/ StopFree
    \/ GetNext \/ get_next
    \/ GetInferenceChip \/ InferenceRead
    \/ CallerResume
    \/ Reader

Spec == Init /\ [][Next]_vars

(***************************************************************************)
(* The producing sessions under fair scheduling, for the liveness claims.  *)
(* Every thread that can take a step eventually takes one (the OS runs     *)
(* every thread); the caller is not obliged to make a call.  rand_r, the   *)
(* backend and the lock are treated fairly: a worker that keeps sampling   *)
(* eventually draws an acceptable window if there is one, a read that is   *)
(* retried eventually succeeds, and a trylock that is retried on a slot    *)
(* that is free again and again eventually succeeds.                       *)
(***************************************************************************)
StartProducing ==
    \E _N \in 1 .. MaxFairN, _M \in 1 .. MaxM, label \in BOOLEAN,
       mode \in {TRAINING, EVALUATION}, _window_size \in WindowSizes :
        /\ _N + _M <= MaxLoad
        /\ (label => _N + _M <= MaxFairLabelLoad)
        /\ StartInit(_N, _M, label, mode, _window_size)

NextProducing ==
    \/ StartProducing \/ StartSpawn
    \/ StopSet \/ StopJoin \/ StopFree
    \/ GetNext \/ get_next
    \/ CallerResume
    \/ Reader

\* the steps the caller takes inside a call
CallerStep == StartSpawn \/ StopJoin \/ StopFree \/ get_next \/ CallerResume

\* rand_r draws a window that ends the sampling loop
DrawGood(i) == Sample(i) /\ pc'[i] = "search"

\* the imagery read succeeds; the label read succeeds
ReadSucceeds(i) == ReadImagery(i) /\ pc'[i] # "unlock_loop"

LabelReadSucceeds(i) == ReadLabel(i) /\ pc'[i] # "unlock_loop"

\* the trylock of a worker, or of get_next, succeeds
WorkerLocks(i) == Search(i) /\ mutexes'[slot[i]] = i

CallerLocks == GetNextTryLock /\ cpc' # "get_next"

Fairness ==
    /\ WF_vars(CallerStep)
    /\ SF_vars(CallerLocks)
    /\ \A i \in 0 .. (MaxFairN - 1) :
          /\ WF_vars(reader(i))
          /\ WF_vars(DrawGood(i))
          /\ SF_vars(ReadSucceeds(i))
          /\ SF_vars(LabelReadSucceeds(i))
          /\ SF_vars(WorkerLocks(i))

FairSpec == Init /\ [][NextProducing]_vars /\ Fairness


(***************************************************************************)
(* Claims.                                                                 *)
(***************************************************************************)
\* worker i is inside the critical section of slot s: it has claimed s
\* (line 241) and has not yet released it (lines 264, 278, 286)
InCriticalSection(i, s) ==
    /\ pc[i] \in {"read_imagery", "read_label", "publish", "unlock_loop"}
    /\ slot[i] = s

\* worker i is in the part of the critical section that writes the buffers
Writing(i, s) ==
    /\ pc[i] \in {"read_imagery", "read_label"}
    /\ slot[i] = s

IsWindow(b) == b[1] >= 0

\* the chip-grid cell of the window at pixel origin b passes the partition
\* predicate of mode
PartitionOK(mode, b) ==
    LET sum == (b[1] \div window_size) + (b[2] \div window_size)
    IN  IF mode = TRAINING THEN sum % PARTITION # 0 ELSE sum % PARTITION = 0

\* the window at pixel origin b is not reported empty by the backend
CoverageOK(b) ==
    BitAnd(GDAL_DATA_COVERAGE_STATUS_EMPTY,
           GDALGetDataCoverageStatus(b[1], b[2], window_size, window_size)) = 0

\* C1: no two workers are ever inside the critical section of the same slot
\* at the same time.
C1_MutualExclusion ==
    \A i \in Workers, j \in Workers, s \in Slots :
        i # j => ~(InCriticalSection(i, s) /\ InCriticalSection(j, s))

\* C2: a Full slot holds the complete pixels of exactly one window that passed
\* the partition and coverage predicates (imagery and, with a label raster,
\* the label of the same window), no worker is writing a Full slot or a slot
\* get_next is copying, and every chip get_next delivers is the untorn
\* content of one window.
C2_UntornChips ==
    /\ \A s \in Slots :
          ready[s] = 1 =>
             /\ IsWindow(imagery_slots[s])
             /\ Producing =>
                  PartitionOK(operation_mode, imagery_slots[s])
                    /\ CoverageOK(imagery_slots[s])
             /\ arg_label => label_slots[s] = imagery_slots[s]
             /\ \A i \in Workers : ~Writing(i, s)
    /\ cpc = "get_next_copy" => \A i \in Workers : ~Writing(i, current % M)
    /\ cpc = "get_next_done" =>
          /\ IsWindow(imagery_buffer)
          /\ label_buffer # NOBUF => label_buffer = imagery_buffer

\* C3: every window a worker reads and publishes, and every chip get_next
\* delivers, has chip-grid coordinates (cx, cy) with (cx + cy) mod 7 # 0 in
\* Training and (cx + cy) mod 7 = 0 in Evaluation.
C3_PartitionRespected ==
    Producing =>
       /\ \A i \in Workers :
             pc[i] \in {"read_imagery", "read_label", "publish"} =>
                PartitionOK(operation_mode, <<x_offset[i], y_offset[i]>>)
       /\ \A s \in Slots :
             ready[s] = 1 /\ IsWindow(imagery_slots[s]) =>
                PartitionOK(operation_mode, imagery_slots[s])
       /\ cpc = "get_next_done" /\ IsWindow(imagery_buffer) =>
             PartitionOK(operation_mode, imagery_buffer)
       /\ cpc = "get_next_done" /\ IsWindow(label_buffer) =>
             PartitionOK(operation_mode, label_buffer)

\* a Training chip whose pixel coordinates sum to a multiple of 7 while its
\* chip-grid coordinates do not
C3_Witness ==
    /\ cpc = "get_next_done" /\ operation_mode = TRAINING
    /\ imagery_buffer = <<7, 7>>

InBounds(b) ==
    /\ 0 <= b[1] /\ b[1] <= width - window_size
    /\ 0 <= b[2] /\ b[2] <= height - window_size
    /\ b[1] % window_size = 0 /\ b[2] % window_size = 0

\* C4: the pixel origin (x, y) of every window a worker reads, and of every
\* chip delivered, has 0 <= x <= width - window_size, 0 <= y <= height -
\* window_size, and x and y multiples of window_size.
C4_WindowInBounds ==
    /\ \A i \in Workers :
          pc[i] \in {"read_imagery", "read_label", "publish"} =>
             InBounds(<<x_offset[i], y_offset[i]>>)
    /\ \A s \in Slots : IsWindow(imagery_slots[s]) => InBounds(imagery_slots[s])
    /\ \A s \in Slots : IsWindow(label_slots[s]) => InBounds(label_slots[s])
    /\ cpc = "get_next_done" /\ IsWindow(imagery_buffer) =>
          InBounds(imagery_buffer)

\* the last whole column and row of the grid are read: the raster is 15 x 15,
\* the window 7, the chip at (7, 7) ends at pixel 13 and pixel 14 is not read
C4_Witness ==
    /\ \E i \in Workers :
          pc[i] = "read_imagery" /\ x_offset[i] = 7 /\ y_offset[i] = 7
    /\ width = 15 /\ height = 15 /\ window_size = 7


\* stop has returned and no session has been started since
Stopped == cpc = "idle" /\ ~SessionActive /\ sessions > 0

\* C7: after stop returns no worker thread is running, every dataset handle
\* that start opened is closed and every slot buffer is freed.
C7_StopReleasesAll ==
    Stopped =>
       /\ \A i \in Workers : pc[i] \in {"none", "done"}
       /\ gdal_open = {}
       /\ heap = {}

\* C8: after stop returns every session variable equals its value before the
\* first start.
C8_StopResetsAll ==
    Stopped =>
       /\ N = 0 /\ M = 0
       /\ operation_mode = STOPPED
       /\ window_size = 0 /\ band_count = 0 /\ bands = <<>>
       /\ imagery_data_type = GDT_Unset /\ label_data_type = GDT_Unset
       /\ width = 0 /\ height = 0 /\ current = 0
       /\ threads = NullPerWorker
       /\ imagery_datasets = NullPerWorker
       /\ imagery_first_bands = NullPerWorker
       /\ label_datasets = NullPerWorker
       /\ mutexes = [s \in Slots |-> NOMUTEX]
       /\ imagery_slots = [s \in Slots |-> NOBUF]
       /\ label_slots = [s \in Slots |-> NOBUF]
       /\ ready = [s \in Slots |-> NOREADY]

\* C9: whenever get_inference_chip returns failure its output buffer is
\* entirely zero bytes.
C9_FailureIsZeroFilled ==
    (cpc = "inference_done" /\ ret = 0) => imagery_buffer = ZEROS

\* a failure after read attempts that may have written part of the buffer
C9_Witness ==
    cpc = "inference_done" /\ ret = 0 /\ reads >= 1 /\ attempts >= 1

\* the mode is Inference and the backend does not flag the chip grid cell of
\* (arg_x, arg_y) empty
Readable ==
    /\ operation_mode = INFERENCE
    /\ ~EMPTY_WINDOW(arg_x \div window_size, arg_y \div window_size)

\* C10: get_inference_chip issues no read unless the mode is Inference and
\* the cell is not flagged empty, issues at most `attempts` reads, returns
\* success at the first read that succeeds with that read's pixels in the
\* buffer, and returns failure only when there was no read to succeed: the
\* call was not readable, or all `attempts` reads were issued and failed.
C10_InferenceResult ==
    /\ cpc = "inference_loop" =>
          Readable /\ reads = ci /\ reads <= attempts
    /\ cpc = "inference_done" =>
          /\ ret \in {0, 1}
          /\ reads <= attempts
          /\ ~Readable => ret = 0 /\ reads = 0
          /\ ret = 1 =>
                /\ Readable
                /\ reads = ci + 1
                /\ imagery_buffer = <<arg_x, arg_y>>
          /\ (ret = 0 /\ Readable) => reads = attempts /\ ci = attempts

\* success at the second attempt, after a failed first one
C10_Witness ==
    /\ cpc = "inference_done" /\ ret = 1 /\ reads = 2
    /\ imagery_buffer = <<3, 0>>


\* some cell of the chip grid passes the partition predicate of the session's
\* mode and the coverage predicate
GoodWindowExists ==
    \E cx \in 0 .. ((width \div window_size) - 1),
       cy \in 0 .. ((height \div window_size) - 1) :
        /\ PartitionOK(operation_mode, <<cx * window_size, cy * window_size>>)
        /\ ~EMPTY_WINDOW(cx, cy)

\* every call of get_next made with N >= 1 workers and an acceptable window
\* eventually returns
EventuallyReturns ==
    (cpc = "get_next" /\ N >= 1 /\ GoodWindowExists) ~> (cpc = "get_next_done")

\* get_next starts its copy only from a slot it has locked and found Full, and
\* returns only from that copy, with the slot set Empty
ReturnsOnlyFull ==
    /\ [][(cpc # "get_next_copy" /\ cpc' = "get_next_copy") =>
             /\ mutexes'[current % M] = CALLER
             /\ ready[current % M] = 1]_vars
    /\ [][(cpc # "get_next_done" /\ cpc' = "get_next_done") =>
             /\ cpc = "get_next_copy"
             /\ ready'[current % M] = 0
             /\ imagery_buffer' \in {imagery_slots[current % M], TORN}]_vars

WorkersWinLocks ==
    \A i \in Workers, s \in Slots :
        ([]<>(pc[i] = "search" /\ slot[i] = s)) => ([]<>(mutexes[s] = i))

GoodWindowFor(i) ==
    \E cx \in 0 .. ((width \div window_size) - 1),
       cy \in 0 .. ((height \div window_size) - 1) : ~BadWindow(i, cx, cy)

\* stop has set the mode and has not returned
StopWaits == cpc \in {"stop_join", "stop_free"}

\* C6 as stated: once stop has set the mode to Stopped, every worker exits
\* and stop returns, whatever the workers were doing.
C6_StopReturns == StopWaits ~> Stopped

\* C6: once stop has set the mode to Stopped, every worker exits and stop
\* returns, provided every worker that is sampling has an acceptable window
\* to draw.
C6_StopReturnsIfSamplable ==
    (StopWaits /\ \A i \in Workers :
                     pc[i] \in {"sample_training", "sample_evaluation"}
                        => GoodWindowFor(i))
       ~> Stopped

\* stop has joined a worker that was sampling when the mode was set
C6_Witness ==
    /\ cpc = "stop_join" /\ window_size = 7
    /\ \E i \in Workers : i < N /\ pc[i] \in {"sample_training", "sample_evaluation"}

\* the configuration in force is one start has to refuse
BadConfiguration ==
    \/ N = 0 \/ M = 0 \/ window_size = 0
    \/ operation_mode \notin {STOPPED, TRAINING, EVALUATION, INFERENCE}

\* C11: start refuses a configuration error: with N = 0 (or M = 0, window_size
\* = 0, a bad mode code) the session stays Stopped, no worker is spawned and
\* nothing start opened or allocated is left behind.
C11_StartRefusesBadConfig ==
    (cpc = "idle" /\ sessions > 0 /\ BadConfiguration) =>
       /\ operation_mode = STOPPED
       /\ ~SessionActive
       /\ \A i \in Workers : pc[i] = "none"
       /\ gdal_open = {}
       /\ heap = {}

\* the slot whose mutex worker i is about to pass to pthread_mutex_unlock, or
\* -1 if its next step is not an unlock
UnlockTarget(i) ==
    IF pc[i] \in {"unlock_continue", "unlock_loop"} THEN slot[i]
    ELSE IF pc[i] = "after_search" /\ ~Producing THEN (slot[i] + M - 1) % M
    ELSE -1

\* C12: a worker releases a slot lock only if it holds it: whenever a worker's
\* next step is an unlock (after a trylock of the slot search, whether it
\* failed or found the slot Full; after the search ended because the mode
\* changed; after a read or a publish), the worker is the owner of that lock.
C12_ReleasesOnlyHeld ==
    \A i \in Workers :
        UnlockTarget(i) # -1 => mutexes[UnlockTarget(i)] = i

\* C13: the ready flag and the buffers of a slot are accessed only by the
\* holder of the slot's lock: a worker that is about to write a slot's buffers
\* or its ready flag, and the consumer while it copies a slot out and clears
\* its ready flag, is at that moment the owner of that slot's lock.
C13_AccessUnderLock ==
    /\ \A i \in Workers :
          pc[i] \in {"read_imagery", "read_label", "publish"} =>
             mutexes[slot[i]] = i
    /\ cpc = "get_next_copy" => mutexes[current % M] = CALLER

\* the slot locks thread t owns
HeldBy(t) == {s \in Slots : mutexes[s] = t}

\* C14: every thread holds at most one slot lock at a time: a worker holds
\* none when it tries a slot in its search, the consumer holds none when it
\* tries a slot, and no thread ever waits for a lock: a running worker and a
\* consumer inside get_next always have a step to take, whatever the locks.
C14_AtMostOneLock ==
    /\ \A i \in Workers :
          /\ Cardinality(HeldBy(i)) <= 1
          /\ pc[i] = "search" => HeldBy(i) = {}
          /\ pc[i] \notin {"none", "done"} => ENABLED reader(i)
    /\ Cardinality(HeldBy(CALLER)) <= 1
    /\ cpc = "get_next" => HeldBy(CALLER) = {}
    /\ cpc \in {"get_next", "get_next_miss", "get_next_copy"} =>
          ENABLED get_next

\* a worker and the consumer hold the locks of the two slots, and the
\* consumer's slot is not Full, so that it goes on to the worker's slot
C14_Witness ==
    /\ M = 2 /\ cpc = "get_next_miss"
    /\ mutexes[current % M] = CALLER
    /\ \E i \in Workers : mutexes[(current + 1) % M] = i

\* worker i's read of the imagery or of the label fails in this step
ReadFails(i) ==
    /\ pc[i] \in {"read_imagery", "read_label"}
    /\ pc'[i] = "unlock_loop"

\* C15: when a worker's imagery or label read fails, the slot it claimed is
\* still Empty and is released Empty, and the worker goes back to the head of
\* its outer loop; a slot becomes Full only by the publish of a worker whose
\* imagery read and, with a label raster, label read of the same window have
\* filled the slot's buffers.
C15_FailedReadLeavesEmpty ==
    /\ [][\A i \in Workers : ReadFails(i) => ready'[slot[i]] = 0]_vars
    /\ [][\A i \in Workers :
            (pc[i] = "unlock_loop" /\ pc'[i] # "unlock_loop") =>
               pc'[i] = "loop_head" /\ ready'[slot[i]] = ready[slot[i]]]_vars
    /\ [][\A s \in Slots :
            (ready[s] = 0 /\ ready'[s] = 1) =>
               \E i \in Workers :
                  /\ pc[i] = "publish" /\ slot[i] = s
                  /\ imagery_slots[s] = <<x_offset[i], y_offset[i]>>
                  /\ label_datasets[i] # H_NULL =>
                        label_slots[s] = <<x_offset[i], y_offset[i]>>]_vars

\* the backend reports the window of chip-grid cell (cx, cy) entirely empty:
\* the status has the EMPTY bit and not the DATA bit
EntirelyEmpty(cx, cy) ==
    GDALGetDataCoverageStatus(window_size * cx, window_size * cy,
                              window_size, window_size)
       = GDAL_DATA_COVERAGE_STATUS_EMPTY

\* C16: the coverage predicate rejects a window exactly when the backend
\* reports it entirely empty: the window a sampling worker tests is rejected
\* for its coverage if and only if it is entirely empty, and in Inference mode
\* get_inference_chip reaches its reads for every window that is not entirely
\* empty and returns failure without a read (attempts being at least 1) only
\* for a window that is.
C16_RejectsOnlyEntirelyEmpty ==
    /\ \A i \in Workers :
          pc[i] \in {"sample_training", "sample_evaluation"} =>
             (EMPTY_WINDOW(x_offset[i], y_offset[i])
                <=> EntirelyEmpty(x_offset[i], y_offset[i]))
    /\ cpc = "inference_loop" =>
          ~EntirelyEmpty(arg_x \div window_size, arg_y \div window_size)
    /\ (cpc = "inference_done" /\ operation_mode = INFERENCE
          /\ attempts >= 1 /\ reads = 0) =>
          EntirelyEmpty(arg_x \div window_size, arg_y \div window_size)

\* the dataset handles worker i's next step passes to the backend: the first
\* band of imagery_datasets[id] in EMPTY_WINDOW (lines 215, 226),
\* imagery_datasets[id] at line 256, label_datasets[id] at line 270
WorkerHandles(i) ==
    IF pc[i] \in {"sample_training", "sample_evaluation", "read_imagery"}
    THEN {ImageryHandle(i)}
    ELSE IF pc[i] = "read_label" THEN {LabelHandle(i)}
    ELSE {}

\* the dataset handles get_inference_chip is using (id = 0, lines 125-141)
CallerHandles ==
    IF cpc = "inference_loop" THEN {ImageryHandle(0)} ELSE {}

\* C17: no dataset handle is used by two threads at the same time: the handles
\* two workers are using are disjoint, and so are those of a worker and of
\* get_inference_chip; in Inference mode no worker is past the test of its
\* outer loop (it does not sample, lock a slot or call the backend) and no
\* slot is Full.
C17_HandlesNotShared ==
    /\ \A i \in Workers, j \in Workers :
          i # j => WorkerHandles(i) \cap WorkerHandles(j) = {}
    /\ \A i \in Workers : WorkerHandles(i) \cap CallerHandles = {}
    /\ \A i \in Workers : WorkerHandles(i) \subseteq gdal_open
    /\ operation_mode = INFERENCE =>
          /\ \A i \in Workers : pc[i] \in {"none", "loop_head", "done"}
          /\ \A s \in Slots : ready[s] # 1 /\ mutexes[s] \notin Workers

\* get_inference_chip is in its read loop on handle 0 while worker 0 has been
\* spawned and has not yet left its thread function
C17_Witness ==
    /\ operation_mode = INFERENCE /\ cpc = "inference_loop"
    /\ pc[0] = "loop_head"

\* the session configuration start writes at lines 329-345
configuration == <<N, M, imagery_data_type, label_data_type, window_size,
                   band_count, bands, width, height>>

\* the configuration and the M slots are as start leaves them at line 360,
\* whatever the workers and get_next did to the slots since
SessionInitialized ==
    /\ N >= 1 /\ M >= 1
    /\ window_size \in WindowSizes /\ band_count = 1 /\ bands = <<1>>
    /\ imagery_data_type = GDT_Byte /\ label_data_type = GDT_Byte
    /\ width = RasterXSize /\ height = RasterYSize
    /\ \A s \in Slots :
          s < M =>
             /\ mutexes[s] # NOMUTEX
             /\ imagery_slots[s] # NOBUF /\ label_slots[s] # NOBUF
             /\ ready[s] \in {0, 1}
             /\ {ImagerySlot(s), LabelSlot(s)} \subseteq heap

\* worker i's own handles are open (the label handle if there is a label
\* raster)
HandlesOpen(i) ==
    /\ imagery_datasets[i] = H_OPEN /\ imagery_first_bands[i] = H_OPEN
    /\ label_datasets[i] = (IF arg_label THEN H_OPEN ELSE H_NULL)
    /\ ImageryHandle(i) \in gdal_open
    /\ arg_label => LabelHandle(i) \in gdal_open

\* C18: start initializes before it spawns: when worker i is created the mode
\* and the configuration have been written, the M slots have their buffers
\* and locks and are all Empty and unlocked; as long as the thread of worker i
\* exists the configuration and the slots are initialized and its own handles
\* are open; and while any worker thread exists the configuration is not
\* written and the mode is written by stop only.
C18_InitializedBeforeSpawn ==
    /\ [](\A i \in Workers :
             pc[i] # "none" => SessionInitialized /\ HandlesOpen(i))
    /\ [][\A i \in Workers :
            (pc[i] = "none" /\ pc'[i] # "none") =>
               /\ operation_mode \in StartModes /\ SessionInitialized
               /\ i >= 1 \/ \A s \in Slots :
                               s < M => ready[s] = 0 /\ mutexes[s] = UNLOCKED
               /\ HandlesOpen(i)']_vars
    /\ [][(\E i \in Workers : pc[i] # "none") =>
            /\ UNCHANGED configuration
            /\ operation_mode' # operation_mode =>
                  cpc = "idle" /\ cpc' = "stop_join"
                     /\ operation_mode' = STOPPED]_vars

\* worker 1 is about to be created while worker 0 is already in a read
C18_Witness ==
    /\ cpc = "start_spawn" /\ ci = 1
    /\ pc[0] = "read_imagery" /\ pc[1] = "none"

\* the thread of worker i has been created and has not returned
Running(i) == pc[i] \notin {"none", "done"}

\* C19: stop tears down nothing a running worker can use: a handle of worker
\* i is closed only by the step that joins worker i, whose thread has
\* returned; the slot buffers, locks and ready flags, bands and the
\* per-worker arrays are freed only when no worker thread is left; so a
\* running worker's handles are open and the slots and bands are allocated.
C19_TeardownAfterJoin ==
    /\ [](\A i \in Workers :
             Running(i) =>
                /\ ImageryHandle(i) \in gdal_open
                /\ imagery_datasets[i] = H_OPEN
                /\ label_datasets[i] # H_CLOSED
                /\ label_datasets[i] = H_OPEN => LabelHandle(i) \in gdal_open
                /\ bands # <<>>
                /\ \A s \in Slots :
                      s < M => /\ {ImagerySlot(s), LabelSlot(s)} \subseteq heap
                               /\ mutexes[s] # NOMUTEX /\ ready[s] # NOREADY)
    /\ [][\A i \in Workers :
            (ImageryHandle(i) \in gdal_open /\ ImageryHandle(i) \notin gdal_open')
               \/ (LabelHandle(i) \in gdal_open /\ LabelHandle(i) \notin gdal_open')
            => pc[i] = "done" /\ pc'[i] = "none"]_vars
    /\ [][(heap' # heap /\ heap' \subseteq heap) \/ (bands # <<>> /\ bands' = <<>>)
            \/ (\E s \in Slots : mutexes[s] # NOMUTEX /\ mutexes'[s] = NOMUTEX)
            \/ (\E i \in Workers : threads[i] # H_NULL /\ threads'[i] = H_NULL)
            => \A i \in Workers : pc[i] = "none"]_vars

\* stop has joined worker 0 and closed its handles while worker 1 is still in
\* its read
C19_Witness ==
    /\ cpc = "stop_join" /\ ci = 1
    /\ imagery_datasets[0] = H_CLOSED
    /\ pc[1] \in {"read_imagery", "read_label"}

\* worker i is outside its claim-read-publish section: not created, at the
\* head of its loop, sampling, or returned
OutsideSection(i) ==
    pc[i] \in {"none", "loop_head", "branch", "sample_training",
               "sample_evaluation", "done"}

\* every worker thread that was created has returned or been joined
AllExited ==
    SessionActive /\ cpc \in {"idle", "stop_join", "stop_free"}
       /\ \A i \in Workers : pc[i] \in {"none", "done"}

\* a worker outside its section, or between two slots of its search, owns no
\* slot lock, and once all workers have exited every slot lock is free
NoLockOutside ==
    /\ \A i \in Workers :
          OutsideSection(i) \/ pc[i] \in {"search", "after_search"}
             => HeldBy(i) = {}
    /\ AllExited => \A s \in Slots : s < M => mutexes[s] = UNLOCKED

\* every write that changes the ready flag of a slot is made by the owner of
\* the slot's lock: the worker that publishes it or get_next that takes it
ReadyWrittenUnderLock ==
    [][\A s \in Slots :
         (ready[s] \in {0, 1} /\ ready'[s] \in {0, 1} /\ ready'[s] # ready[s])
            => \/ \E i \in Workers :
                     /\ pc[i] = "publish" /\ pc'[i] # "publish"
                     /\ slot[i] = s /\ mutexes[s] = i
               \/ cpc = "get_next_copy" /\ current % M = s
                     /\ mutexes[s] = CALLER]_vars

\* C20: a worker holds no slot lock whenever it is outside its
\* claim-read-publish section (sampling, after its release, when its thread
\* returns), so that once all workers have exited every slot lock is free and
\* every slot's ready flag is a value written under the slot's lock.
C20_NoLockOutsideSection == []NoLockOutside /\ ReadyWrittenUnderLock

====
